---- MODULE Spec2Model ----
(***************************************************************************)
(* A model of scraper.py (GreatClips Coupon Finder): the URL validator,    *)
(* the area matcher, the link extractor, the three search backends, the    *)
(* discovery orchestrator, the detail extractor and the pipeline runner.   *)
(*                                                                         *)
(* Strings are sequences.  A URL is a sequence of lexemes: the delimiter   *)
(* characters ":", "/", "?", "#", ";", "@", "[", " " are one lexeme each   *)
(* and a run of other characters ("https", "offers.greatclips.com", "abc") *)
(* is one lexeme.  A text is a sequence of one-character strings.          *)
(***************************************************************************)
EXTENDS Integers, Sequences, FiniteSets, TLC

VARIABLES
    \* the scraper object
    target_area,      \* self.target_area
    found_coupons,    \* self.found_coupons
    \* run() and discover_coupons(): where the call stands, and its locals
    pc,               \* "idle", "google", "ddg", "bing", "merge", "merged",
                      \* "scrape", "discovered", "details", "returned", "error"
    runs,             \* the number of run() calls started on this scraper
    google_pages, ddg_pages, bing_pages, aggregator_pages,
    all_pages, unique_pages,
    page_i,           \* the index in unique_pages of the page scraped next
    all_coupon_urls,
    unique,           \* what discover_coupons returns
    urls,             \* run(): the discovered URLs
    url_i,            \* the index in urls of the coupon checked next
    returned,         \* what run() returned (NotReturned while it runs)
    \* history of the current run() call (not program state)
    backend_calls,    \* the backends called, in order
    page_fetches,     \* the pages handed to the link extractor, in order
    detail_fetches,   \* the URLs handed to the detail extractor, in order
    details_log,      \* what the detail extractor returned for each of them
    extracted,        \* every link the link extractor returned
    known_yielded,    \* a known aggregator page yielded at least one link
    failed,           \* the boundaries at which a call failed
    \* the unit harness of the single functions
    fn,               \* the function the harness applies ("none" in the pipeline)
    args,             \* the inputs of that call
    result            \* what the call returned (NotCalled before it)

scraperVars == <<target_area, found_coupons>>
runVars == <<pc, runs, google_pages, ddg_pages, bing_pages, aggregator_pages,
             all_pages, unique_pages, page_i, all_coupon_urls, unique, urls,
             url_i, returned>>
historyVars == <<backend_calls, page_fetches, detail_fetches, details_log,
                 extracted, known_yielded, failed>>
harnessVars == <<fn, args, result>>
vars == <<scraperVars, runVars, historyVars, harnessVars>>

\* The harness has not applied fn yet / the value fn returned.
NotCalled == [called |-> FALSE]
Returned(v) == [called |-> TRUE, value |-> v]

\* Python's None.
None == [none |-> TRUE]

(***************************************************************************)
(* Generic sequence helpers.                                               *)
(***************************************************************************)
Range(s) == {s[i] : i \in 1..Len(s)}

SeqsUpTo(S, n) == UNION {[1..k -> S] : k \in 0..n}

\* str.find(t, start): the first index >= start holding t, 0 when there is none
\* (indices are 1-based here, so 0 plays the part of Python's -1).
FindFrom(s, t, start) ==
    IF \E i \in start..Len(s) : s[i] = t
    THEN CHOOSE i \in start..Len(s) : s[i] = t /\ \A j \in start..(i - 1) : s[j] # t
    ELSE 0

Find(s, t) == FindFrom(s, t, 1)

\* str.rfind(t): the last index holding t, 0 when there is none.
RFind(s, t) ==
    IF \E i \in 1..Len(s) : s[i] = t
    THEN CHOOSE i \in 1..Len(s) : s[i] = t /\ \A j \in (i + 1)..Len(s) : s[j] # t
    ELSE 0

Drop(s, n) == SubSeq(s, n + 1, Len(s))

Take(s, n) == SubSeq(s, 1, n)

(***************************************************************************)
(* urllib.parse.urlparse, as _is_valid_coupon_url and the backends call it.*)
(***************************************************************************)
CouponHost == "offers.greatclips.com"

\* Lexemes made only of scheme characters (letters, digits, "+", "-", ".").
SchemeCharLexemes ==
    {"http", "https", "HTTPS", "ftp", "abc", "443",
     "xyz", CouponHost, "www.greatclips.com", "deal-site.com", "greatclipsdeal.com",
     "coupons-greatclips.com", "9-99", "8-99", "5-off", "7-99", "14-99",
     "www.bing.com", "go.microsoft.com", "coupons"}

\* Lexemes whose first character is an ASCII letter.
AlphaFirstLexemes == SchemeCharLexemes \ {"443", "9-99", "8-99", "5-off", "7-99", "14-99"}

\* str.lower() on one lexeme.
LowerLexeme(t) == IF t = "HTTPS" THEN "https" ELSE t

\* The number of characters of a lexeme.
LexemeLen(t) ==
    CASE t \in {":", "/", "?", "#", ";", "@", "[", " "} -> 1
      [] t \in {"abc", "xyz", "ftp", "443"} -> 3
      [] t \in {"http", "9-99", "8-99", "7-99"} -> 4
      [] t \in {"https", "HTTPS", "5-off", "14-99"} -> 5
      [] t = "coupons" -> 7
      [] t \in {"www.bing.com"} -> 12
      [] t = "deal-site.com" -> 13
      [] t = "go.microsoft.com" -> 16
      [] t \in {"www.greatclips.com", "greatclipsdeal.com"} -> 18
      [] t = CouponHost -> 21
      [] t = "coupons-greatclips.com" -> 22

RECURSIVE StrLen(_)
StrLen(s) == IF s = <<>> THEN 0 ELSE LexemeLen(Head(s)) + StrLen(Tail(s))

\* url.lstrip(_WHATWG_C0_CONTROL_OR_SPACE)
RECURSIVE LStrip(_)
LStrip(s) == IF s # <<>> /\ Head(s) = " " THEN LStrip(Tail(s)) ELSE s

\* schemes for which urlparse splits ";params" off the path
uses_params == {<<>>, <<"ftp">>, <<"http">>, <<"https">>}

ValueError == [raised |-> "ValueError"]

\* _splitnetloc(url, 2): the authority ends at the first "/", "?" or "#".
NetlocEnd(url) ==
    LET ds == {i \in 3..Len(url) : url[i] \in {"/", "?", "#"}}
    IN  IF ds = {} THEN Len(url) + 1 ELSE CHOOSE i \in ds : \A j \in ds : i <= j

\* _splitparams(url)
SplitParamsAt(url, i) ==
    IF i = 0 THEN [path |-> url, params |-> <<>>]
    ELSE [path |-> Take(url, i - 1), params |-> Drop(url, i)]

SplitParams(url) ==
    SplitParamsAt(url, IF "/" \in Range(url)
                       THEN FindFrom(url, ";", RFind(url, "/"))
                       ELSE Find(url, ";"))

(***************************************************************************)
(* urlparse(url) is a record of the six components, or ValueError when     *)
(* urlsplit raises (an authority with an unmatched "[").  It is written as *)
(* the chain of its steps, last step first; each step hands what it split  *)
(* off to the next.                                                        *)

\* ParseResult(scheme, netloc, url, params, query, fragment)
ParseResult(scheme, netloc, sp, query, fragment) ==
    [scheme |-> scheme, netloc |-> netloc, path |-> sp.path, params |-> sp.params,
     query |-> query, fragment |-> fragment]

\* urlparse: if scheme in uses_params and ';' in url: _splitparams(url)
SplitParamsStep(scheme, netloc, url, query, fragment) ==
    ParseResult(scheme, netloc,
                IF scheme \in uses_params /\ ";" \in Range(url)
                THEN SplitParams(url)
                ELSE [path |-> url, params |-> <<>>],
                query, fragment)

\* urlsplit: if '?' in url: url, query = url.split('?', 1)
SplitQueryAt(scheme, netloc, url, fragment, q) ==
    SplitParamsStep(scheme, netloc,
                    IF q > 0 THEN Take(url, q - 1) ELSE url,
                    IF q > 0 THEN Drop(url, q) ELSE <<>>,
                    fragment)

SplitQuery(scheme, netloc, url, fragment) ==
    SplitQueryAt(scheme, netloc, url, fragment, Find(url, "?"))

\* urlsplit: if '#' in url: url, fragment = url.split('#', 1)
SplitFragmentAt(scheme, netloc, url, h) ==
    SplitQuery(scheme, netloc,
               IF h > 0 THEN Take(url, h - 1) ELSE url,
               IF h > 0 THEN Drop(url, h) ELSE <<>>)

\* urlsplit: an authority with "[" and no "]" raises ValueError.
CheckBrackets(scheme, netloc, url) ==
    IF "[" \in Range(netloc)
    THEN ValueError
    ELSE SplitFragmentAt(scheme, netloc, url, Find(url, "#"))

\* urlsplit: if url[:2] == '//': netloc, url = _splitnetloc(url, 2)
SplitNetlocAt(scheme, url, hasNetloc, delim) ==
    CheckBrackets(scheme,
                  IF hasNetloc THEN SubSeq(url, 3, delim - 1) ELSE <<>>,
                  IF hasNetloc THEN Drop(url, delim - 1) ELSE url)

SplitNetloc(scheme, url) ==
    SplitNetlocAt(scheme, url,
                  Len(url) >= 2 /\ url[1] = "/" /\ url[2] = "/",
                  NetlocEnd(url))

\* urlsplit: the text before the first ":" is the scheme when it starts with
\* a letter and holds scheme characters only; it is lower-cased.
SplitSchemeAt(url, i, hasScheme) ==
    SplitNetloc(IF hasScheme THEN [k \in 1..(i - 1) |-> LowerLexeme(url[k])] ELSE <<>>,
                IF hasScheme THEN Drop(url, i) ELSE url)

SplitScheme(url, i) ==
    SplitSchemeAt(url, i,
                  /\ i > 1
                  /\ url[1] \in AlphaFirstLexemes
                  /\ \A k \in 1..(i - 1) : url[k] \in SchemeCharLexemes)

FindScheme(url) == SplitScheme(url, Find(url, ":"))

urlparse(url) == FindScheme(LStrip(url))

\* The return expression of _is_valid_coupon_url, and its except clause.
IsCouponParse(parsed) ==
    IF parsed = ValueError
    THEN FALSE
    ELSE /\ parsed.scheme \in {<<"http">>, <<"https">>}
         /\ parsed.netloc = <<CouponHost>>
         /\ StrLen(parsed.path) > 1

\* GreatClipsScraper._is_valid_coupon_url
_is_valid_coupon_url(url) == IsCouponParse(urlparse(url))

(***************************************************************************)
(* Characters, and the part of Python's re module that _matches_area and   *)
(* extract_coupon_details use.                                             *)
(***************************************************************************)
LowerCase == <<"a", "b", "c", "d", "e", "f", "g", "h", "i", "j", "k", "l", "m",
               "n", "o", "p", "q", "r", "s", "t", "u", "v", "w", "x", "y", "z">>
UpperCase == <<"A", "B", "C", "D", "E", "F", "G", "H", "I", "J", "K", "L", "M",
               "N", "O", "P", "Q", "R", "S", "T", "U", "V", "W", "X", "Y", "Z">>
Digits == {"0", "1", "2", "3", "4", "5", "6", "7", "8", "9"}
WhiteSpace == {" ", "\n", "\t"}

\* \w: letters, digits and the underscore.
IsWordChar(c) == c \in Range(LowerCase) \cup Range(UpperCase) \cup Digits \cup {"_"}

\* Case folding of one character (re.IGNORECASE, str.lower).
Lower(c) ==
    IF c \in Range(UpperCase)
    THEN LowerCase[CHOOSE i \in 1..26 : UpperCase[i] = c]
    ELSE c

LowerStr(s) == [i \in 1..Len(s) |-> Lower(s[i])]

\* re.escape(s): a backslash before every character that is not a letter, a
\* digit or "_" and is special to re (of the characters used here: "." and " ",
\* "$", "-"; "," is left alone).
ReSpecial == {".", " ", "$", "-", "\\", "*", "+", "?", "(", ")", "[", "]", "^", "|"}

RECURSIVE re_escape(_)
re_escape(s) ==
    IF s = <<>> THEN <<>>
    ELSE (IF Head(s) \in ReSpecial THEN <<"\\", Head(s)>> ELSE <<Head(s)>>)
         \o re_escape(Tail(s))

\* The atoms of a pattern text: "\" and the character after it are one literal,
\* an unescaped "." matches any character but a newline, any other character
\* is a literal.
RECURSIVE ReAtoms(_)
ReAtoms(p) ==
    IF p = <<>> THEN <<>>
    ELSE IF Head(p) = "\\" /\ Len(p) >= 2
         THEN <<[kind |-> "lit", ch |-> p[2]]>> \o ReAtoms(Drop(p, 2))
         ELSE IF Head(p) = "."
              THEN <<[kind |-> "any"]>> \o ReAtoms(Tail(p))
              ELSE <<[kind |-> "lit", ch |-> Head(p)]>> \o ReAtoms(Tail(p))

\* One atom against one character, under re.IGNORECASE.
AtomMatches(a, c) ==
    IF a.kind = "any" THEN c # "\n" ELSE Lower(a.ch) = Lower(c)

\* Whether position p of text (1..Len+1) holds a word character.
WordAt(text, p) == p >= 1 /\ p <= Len(text) /\ IsWordChar(text[p])

\* \b just before position p: exactly one of the characters on its two sides
\* is a word character (the edges of the text count as non-word).
WordBoundary(text, p) == WordAt(text, p - 1) # WordAt(text, p)

\* re.search finds a match of \b atoms \b in text.
SearchAtoms(atoms, text) ==
    \E i \in 1..(Len(text) + 1) :
        /\ i + Len(atoms) - 1 <= Len(text)
        /\ WordBoundary(text, i)
        /\ \A k \in 1..Len(atoms) : AtomMatches(atoms[k], text[i + k - 1])
        /\ WordBoundary(text, i + Len(atoms))

\* re.search(r'\b' + pattern + r'\b', text, re.IGNORECASE) finds a match.
SearchBounded(pattern, text) == SearchAtoms(ReAtoms(pattern), text)

\* GreatClipsScraper._matches_area
_matches_area(area, text) == SearchBounded(re_escape(area), text)

(***************************************************************************)
(* Exceptions.  Every exception of the code's taxonomy derives from        *)
(* Exception; requests' ConnectionError, Timeout and HTTPError are not     *)
(* subclasses of one another.                                              *)
(***************************************************************************)
ExceptionKinds == {"ConnectionError", "Timeout", "HTTPError", "TypeError", "Exception"}

\* A handler that catches the named class only: what the except clauses
\* would be without the class hierarchy.
IsExactly(exc, cls) == exc = cls

IsInstance(exc, cls) == exc = cls \/ cls = "Exception"

\* Whether a try statement with these except clauses catches exc.
Handles(clauses, exc) == \E c \in clauses : IsInstance(exc, c)

\* The outcome of a call: a value returned, or an exception that left it.
Ok(v) == [raised |-> "none", value |-> v]
Raise(e) == [raised |-> e, value |-> None]

(***************************************************************************)
(* What the network answers to session.get(url): get_exc is the exception  *)
(* session.get raises ("none": it returns a response), status the status   *)
(* of the response, parse_exc the exception the document raises while it   *)
(* is parsed and read ("none": it parses), doc the parsed document.        *)
(***************************************************************************)
Response(get_exc, status, parse_exc, doc) ==
    [get_exc |-> get_exc, status |-> status, parse_exc |-> parse_exc, doc |-> doc]

\* response.raise_for_status(): HTTPError for a 4xx or 5xx status.
raise_for_status(response) == IF response.status >= 400 THEN "HTTPError" ELSE "none"

\* session.get(...); response.raise_for_status(); BeautifulSoup(response.text):
\* the first exception raised on the way, "none" when the document is there.
FetchAndParse(response) ==
    IF response.get_exc # "none" THEN response.get_exc
    ELSE IF raise_for_status(response) # "none" THEN raise_for_status(response)
    ELSE response.parse_exc

(***************************************************************************)
(* An aggregator page is the sequence of its elements in document order;   *)
(* an element has a name and may have an href attribute.                   *)
(***************************************************************************)
Element(name, has_href, href) == [name |-> name, has_href |-> has_href, href |-> href]

\* soup.find_all('a', href=True)
IsAnchorWithHref(e) == e.name = "a" /\ e.has_href

find_all_a_href(doc) == SelectSeq(doc, IsAnchorWithHref)

\* The except clauses of _extract_coupon_links_from_page.
LinksExceptClauses == {"ConnectionError", "Timeout", "HTTPError", "Exception"}

\* if self._is_valid_coupon_url(href)
IsCouponAnchor(e) == _is_valid_coupon_url(e.href)

\* The hrefs of the anchors kept, last anchor first.
HrefsReversed(a_tags) == [i \in 1..Len(a_tags) |-> a_tags[Len(a_tags) + 1 - i].href]

\* links.append(href) for each anchor kept, in document order.
HrefsOf(a_tags) == [i \in 1..Len(a_tags) |-> a_tags[i].href]

\* The try statement of _extract_coupon_links_from_page; exc is the first
\* exception of the fetch.
ExtractLinks(response, exc) ==
    IF exc = "none"
    THEN Ok(HrefsOf(SelectSeq(find_all_a_href(response.doc), IsCouponAnchor)))
    ELSE IF Handles(LinksExceptClauses, exc) THEN Ok(<<>>) ELSE Raise(exc)

\* GreatClipsScraper._extract_coupon_links_from_page(page_url), given what
\* the network answers for page_url.
_extract_coupon_links_from_page(response) == ExtractLinks(response, FetchAndParse(response))

(***************************************************************************)
(* A coupon page.  body tells whether the document has a body; nodes are   *)
(* the nodes of the body in document order (preorder), each with its depth *)
(* below the body: an element (name "div", "p", "h4", ...) or a text node  *)
(* (name "#text") with its characters.                                     *)
(***************************************************************************)
Tag(name, depth, id) == [name |-> name, depth |-> depth, id |-> id, text |-> <<>>]
Text(depth, chars) == [name |-> "#text", depth |-> depth, id |-> "", text |-> chars]
Page(body, nodes) == [body |-> body, nodes |-> nodes]

\* str.strip()
RECURSIVE RStrip(_)
RStrip(s) == IF s # <<>> /\ s[Len(s)] \in WhiteSpace THEN RStrip(Take(s, Len(s) - 1)) ELSE s

RECURSIVE LStripWs(_)
LStripWs(s) == IF s # <<>> /\ Head(s) \in WhiteSpace THEN LStripWs(Tail(s)) ELSE s

Strip(s) == LStripWs(RStrip(s))

\* The last node of the subtree of node i.
SubtreeEnd(nodes, i) ==
    LET ends == {j \in i..Len(nodes) : \A k \in (i + 1)..j : nodes[k].depth > nodes[i].depth}
    IN  CHOOSE j \in ends : \A k \in ends : k <= j

\* The stripped, non-empty strings of nodes first..last, concatenated.
RECURSIVE JoinStripped(_, _, _)
JoinStripped(nodes, first, last) ==
    IF first > last THEN <<>>
    ELSE (IF nodes[first].name = "#text" THEN Strip(nodes[first].text) ELSE <<>>)
         \o JoinStripped(nodes, first + 1, last)

\* tag.get_text(strip=True) for the element at index i.
get_text(nodes, i) == JoinStripped(nodes, i + 1, SubtreeEnd(nodes, i))

\* body.get_text(strip=True)
body_get_text(nodes) == JoinStripped(nodes, 1, Len(nodes))

\* soup.find('div', id='offer-details'): the index of the first such
\* element, 0 when there is none.
find_offer_details(nodes) ==
    LET hits == {i \in 1..Len(nodes) : nodes[i].name = "div" /\ nodes[i].id = "offer-details"}
    IN  IF hits = {} THEN 0 ELSE CHOOSE i \in hits : \A j \in hits : i <= j

\* 'sub' in s
Contains(s, sub) ==
    \E i \in 1..(Len(s) - Len(sub) + 1) : SubSeq(s, i, i + Len(sub) - 1) = sub

StrDescription == <<"d", "e", "s", "c", "r", "i", "p", "t", "i", "o", "n">>
StrTerm == <<"t", "e", "r", "m">>
StrUnknown == <<"U", "n", "k", "n", "o", "w", "n">>

\* if 'description' in heading ... elif 'term' in heading ... else None
SectionOf(heading) ==
    IF Contains(heading, StrDescription) THEN "description"
    ELSE IF Contains(heading, StrTerm) THEN "terms"
    ELSE "None"

\* One turn of the loop over offer_details.descendants, for an element of
\* this name and text, with st = [current_section, description_text,
\* terms_text].
WalkStep(st, name, text) ==
    IF name = "h4"
    THEN [st EXCEPT !.current_section = SectionOf(LowerStr(text))]
    ELSE IF name \in {"p", "div", "span", "li"} /\ text # <<>>
         THEN IF st.current_section = "description"
              THEN [st EXCEPT !.description_text = @ \o <<" ">> \o text]
              ELSE IF st.current_section = "terms"
                   THEN [st EXCEPT !.terms_text = @ \o <<" ">> \o text]
                   ELSE st
         ELSE st

\* The loop over offer_details.descendants, from node i to node last.
RECURSIVE WalkDescendants(_, _, _, _)
WalkDescendants(nodes, i, last, st) ==
    IF i > last THEN st
    ELSE WalkDescendants(nodes, i + 1, last,
                         WalkStep(st, nodes[i].name, get_text(nodes, i)))

\* description_text = description_text.strip(); terms_text = terms_text.strip()
StripSections(st) ==
    [description_text |-> Strip(st.description_text), terms_text |-> Strip(st.terms_text)]

\* An extractor without the fallback to the body text.
NoSectionTexts(page, od) == [description_text |-> <<>>, terms_text |-> <<>>]

\* The if offer_details / else of extract_coupon_details; od is the index
\* of the offer-details element, 0 without one.
SectionTextsAt(page, od) ==
    IF od # 0
    THEN StripSections(WalkDescendants(page.nodes, od + 1, SubtreeEnd(page.nodes, od),
                           [current_section |-> "None", description_text |-> <<>>,
                            terms_text |-> <<>>]))
    ELSE StripSections([description_text |->
                            IF page.body THEN body_get_text(page.nodes) ELSE <<>>,
                        terms_text |-> <<>>])

\* description_text and terms_text as extract_coupon_details has them after
\* its two strip() calls.
SectionTexts(page) == SectionTextsAt(page, find_offer_details(page.nodes))

\* The last index of the run of characters of S that starts at index i
\* (i - 1 when text[i] is not in S).
RECURSIVE RunEnd(_, _, _)
RunEnd(text, i, S) ==
    IF i <= Len(text) /\ text[i] \in S THEN RunEnd(text, i + 1, S) ELSE i - 1

\* The match of \$\d+(?:\.\d{2})?(?:\s*off)? that starts at index i of text ends
\* at MoneyEnd(text, i); there is one iff MoneyAt(text, i).
MoneyAt(text, i) == text[i] = "$" /\ i + 1 <= Len(text) /\ text[i + 1] \in Digits

MoneyOff(text, c, w) ==
    IF /\ w + 3 <= Len(text) /\ Lower(text[w + 1]) = "o"
       /\ Lower(text[w + 2]) = "f" /\ Lower(text[w + 3]) = "f"
    THEN w + 3 ELSE c

MoneyCents(text, d) ==
    IF /\ d + 3 <= Len(text) /\ text[d + 1] = "."
       /\ text[d + 2] \in Digits /\ text[d + 3] \in Digits
    THEN d + 3 ELSE d

MoneySpace(text, c) == MoneyOff(text, c, RunEnd(text, c + 1, WhiteSpace))

MoneyEnd(text, i) == MoneySpace(text, MoneyCents(text, RunEnd(text, i + 1, Digits)))

MoneyFrom(text, first) == SubSeq(text, first, MoneyEnd(text, first))

MoneyAmong(text, starts) ==
    IF starts = {} THEN StrUnknown
    ELSE MoneyFrom(text, CHOOSE i \in starts : \A j \in starts : i <= j)

\* offer_value: match.group(0) of the leftmost match, "Unknown" without one.
OfferValue(text) == MoneyAmong(text, {i \in 1..Len(text) : MoneyAt(text, i)})

\* The except clauses for parse errors alone.
ParseErrorClauses == {"AttributeError", "TypeError"}

\* The except clauses of extract_coupon_details; each returns None.
DetailsExceptClauses ==
    {"ConnectionError", "Timeout", "HTTPError", "AttributeError", "TypeError", "Exception"}

\* The record extract_coupon_details returns.
CouponRecord(area, url, all_text) ==
    [url |-> url, area_text |-> all_text, offer_value |-> OfferValue(all_text),
     is_target |-> _matches_area(area, all_text)]

\* all_text = f"{description_text} {terms_text}"
AllText(sections) == sections.description_text \o <<" ">> \o sections.terms_text

\* The try statement of extract_coupon_details; exc is the first exception
\* of the fetch.
ExtractDetails(area, url, response, exc) ==
    IF exc = "none"
    THEN Ok(CouponRecord(area, url, AllText(SectionTexts(response.doc))))
    ELSE IF Handles(DetailsExceptClauses, exc) THEN Ok(None) ELSE Raise(exc)

\* GreatClipsScraper.extract_coupon_details(url), given what the network
\* answers for url.
extract_coupon_details(area, url, response) ==
    ExtractDetails(area, url, response, FetchAndParse(response))

(***************************************************************************)
(* The three search backends.                                              *)
(***************************************************************************)
\* The loop of _google_search and _duckduckgo_search over the URLs the
\* provider delivered: a URL whose netloc is not the coupon host is appended
\* to pages; a URL urlparse raises on ends the loop with that exception.
RECURSIVE KeepNonCouponPages(_, _)
KeepPage(found, pages, parsed) ==
    IF parsed = ValueError
    THEN [pages |-> pages, exc |-> "ValueError"]
    ELSE KeepNonCouponPages(Tail(found),
                            IF parsed.netloc # <<CouponHost>>
                            THEN Append(pages, Head(found)) ELSE pages)

KeepNonCouponPages(found, pages) ==
    IF found = <<>> THEN [pages |-> pages, exc |-> "none"]
    ELSE KeepPage(found, pages, urlparse(Head(found)))

\* The except clauses of _google_search and of _bing_search.
SearchExceptClauses == {"ConnectionError", "Timeout", "Exception"}

\* The try statement of a backend: the pages gathered, unless exc leaves it.
SearchOutcome(clauses, pages, exc) ==
    IF exc = "none" \/ Handles(clauses, exc) THEN Ok(pages) ELSE Raise(exc)

\* _google_search after its loop: the exception of the loop, else the one
\* the generator raised after its last URL.
GoogleOutcome(provider, loop) ==
    SearchOutcome(SearchExceptClauses, loop.pages,
                  IF loop.exc # "none" THEN loop.exc ELSE provider.exc)

\* GreatClipsScraper._google_search, given what search(query) does: it
\* yields the URLs of delivered and then, when exc is not "none", raises.
_google_search(provider) ==
    GoogleOutcome(provider, KeepNonCouponPages(provider.delivered, <<>>))

\* r.get("href", "") of each result that has a non-empty one.
HasHref(r) == r.has_href /\ r.href # <<>>

Hrefs(results) == HrefsOf(SelectSeq(results, HasHref))

\* _duckduckgo_search after its loop.
DuckDuckGoOutcome(loop) == SearchOutcome({"Exception"}, loop.pages, loop.exc)

\* GreatClipsScraper._duckduckgo_search, given what DDGS().text(query) does:
\* it raises exc, or (exc "none") returns the list delivered.
_duckduckgo_search(provider) ==
    IF provider.exc # "none"
    THEN SearchOutcome({"Exception"}, <<>>, provider.exc)
    ELSE DuckDuckGoOutcome(KeepNonCouponPages(Hrefs(provider.delivered), <<>>))

\* Lexemes that contain "bing.com", and those that contain "microsoft.com".
LexemesWithBing == {"www.bing.com"}
LexemesWithMicrosoft == {"go.microsoft.com"}

\* The loop of _bing_search over the anchors of the results page.
RECURSIVE KeepBingResults(_, _)
KeepBingResult(a_tags, pages, parsed) ==
    IF parsed = ValueError
    THEN [pages |-> pages, exc |-> "ValueError"]
    ELSE KeepBingResults(Tail(a_tags),
                         IF /\ parsed.scheme \in {<<"http">>, <<"https">>}
                            /\ parsed.netloc # <<>>
                            /\ Range(parsed.netloc) \cap LexemesWithBing = {}
                            /\ Range(parsed.netloc) \cap LexemesWithMicrosoft = {}
                            /\ parsed.netloc # <<CouponHost>>
                         THEN Append(pages, Head(a_tags).href) ELSE pages)

KeepBingResults(a_tags, pages) ==
    IF a_tags = <<>> THEN [pages |-> pages, exc |-> "none"]
    ELSE KeepBingResult(a_tags, pages, urlparse(Head(a_tags).href))

\* _bing_search after its loop.
BingOutcome(loop) == SearchOutcome(SearchExceptClauses, loop.pages, loop.exc)

\* GreatClipsScraper._bing_search, given what the network answers for the
\* results page.
_bing_search(response) ==
    IF FetchAndParse(response) # "none"
    THEN SearchOutcome(SearchExceptClauses, <<>>, FetchAndParse(response))
    ELSE BingOutcome(KeepBingResults(find_all_a_href(response.doc), <<>>))

(***************************************************************************)
(* discover_coupons: the page list and the two deduplications.             *)
(***************************************************************************)
KNOWN_AGGREGATORS ==
    << <<"https", ":", "/", "/", "greatclipsdeal.com", "/">>,
       <<"https", ":", "/", "/", "coupons-greatclips.com", "/", "9-99">>,
       <<"https", ":", "/", "/", "coupons-greatclips.com", "/", "8-99">>,
       <<"https", ":", "/", "/", "coupons-greatclips.com", "/", "5-off">>,
       <<"https", ":", "/", "/", "coupons-greatclips.com", "/", "7-99">>,
       <<"https", ":", "/", "/", "coupons-greatclips.com", "/", "14-99">> >>

\* A page list to which no known aggregator is added.
AddNoKnown(pages, known) == pages

\* for known in KNOWN_AGGREGATORS: if known not in all_pages: append
RECURSIVE AddKnown(_, _)
AddKnown(pages, known) ==
    IF known = <<>> THEN pages
    ELSE AddKnown(IF Head(known) \in Range(pages) THEN pages
                  ELSE Append(pages, Head(known)),
                  Tail(known))

\* A deduplication that keeps the last occurrence of each value.
RECURSIVE DedupKeepLast(_)
DedupKeepLast(items) ==
    IF items = <<>> THEN <<>>
    ELSE IF Head(items) \in Range(Tail(items))
         THEN DedupKeepLast(Tail(items))
         ELSE <<Head(items)>> \o DedupKeepLast(Tail(items))

\* The loop with the set seen: the first occurrence of each value, in order.
RECURSIVE DedupLoop(_, _)
DedupLoop(items, kept) ==
    IF items = <<>> THEN kept
    ELSE DedupLoop(Tail(items),
                   IF Head(items) \in Range(kept) THEN kept
                   ELSE Append(kept, Head(items)))

Dedup(items) == DedupLoop(items, <<>>)


(***************************************************************************)
(* What the network and the search providers may answer in the pipeline.   *)
(***************************************************************************)
MaxResults == 2
MaxRuns == 2

CouponA == <<"https", ":", "/", "/", CouponHost, "/", "abc">>
CouponB == <<"http", ":", "/", "/", CouponHost, "/", "xyz">>
CouponRoot == <<"https", ":", "/", "/", CouponHost, "/">>
PageDeals == <<"https", ":", "/", "/", "deal-site.com", "/", "coupons">>
PageBing == <<"https", ":", "/", "/", "www.bing.com", "/", "abc">>

PageBracket == <<"https", ":", "/", "/", "[", "deal-site.com", "/">>

\* What a search may find: a page, a known aggregator, a coupon page, and a
\* URL on which urlparse raises ValueError.
SearchHits == {PageDeals, KNOWN_AGGREGATORS[2], CouponA, PageBracket}

RequestFailures == {"ConnectionError", "Timeout", "Exception"}

\* A fetch that ends in a failure: no connection, a timeout, another
\* exception of session.get, an HTTP error status, a document that raises
\* while it is parsed.
FailedResponses ==
    {Response(e, 200, "none", <<>>) : e \in RequestFailures}
    \cup {Response("none", 404, "none", <<>>), Response("none", 200, "TypeError", <<>>)}

GoogleProviders ==
    {[delivered |-> d, exc |-> e] :
        d \in SeqsUpTo(SearchHits, MaxResults), e \in {"none"} \cup RequestFailures}

DdgResults ==
    {[has_href |-> TRUE, href |-> h] : h \in SearchHits} \cup {[has_href |-> FALSE, href |-> <<>>]}

DdgProviders ==
    {[delivered |-> d, exc |-> e] :
        d \in SeqsUpTo(DdgResults, MaxResults), e \in {"none", "Exception"}}

BingResponses ==
    {Response("none", 200, "none", d) :
        d \in SeqsUpTo({Element("a", TRUE, h) : h \in SearchHits \cup {PageBing}}, MaxResults)}
    \cup FailedResponses

\* The aggregator pages of the pipeline: no coupon link, one, and several
\* with a repeat and a link to another host.
AggregatorDocs ==
    { <<Element("a", TRUE, PageDeals)>>,
      <<Element("a", TRUE, CouponA)>>,
      <<Element("a", TRUE, CouponB), Element("a", TRUE, PageDeals),
        Element("a", TRUE, CouponA), Element("a", TRUE, CouponB)>> }

PageResponses == {Response("none", 200, "none", d) : d \in AggregatorDocs} \cup FailedResponses

AreaDC == <<"D", "C">>
StrHeadDescription == <<"D", "e", "s", "c", "r", "i", "p", "t", "i", "o", "n">>
StrFiveOffDC == <<"$", "5", " ", "o", "f", "f", " ", "D", "C">>
StrXDC == <<"x", "D", "C">>

\* The coupon pages of the pipeline: one for the target area, one for none.
MatchPage ==
    Page(TRUE, <<Tag("div", 1, "offer-details"), Tag("h4", 2, ""), Text(3, StrHeadDescription),
                 Tag("p", 2, ""), Text(3, StrFiveOffDC)>>)
NoMatchPage == Page(TRUE, <<Tag("p", 1, ""), Text(2, StrXDC)>>)

CouponResponses ==
    {Response("none", 200, "none", d) : d \in {MatchPage, NoMatchPage}} \cup FailedResponses

(***************************************************************************)
(* The pipeline: run() on one scraper, called up to MaxRuns times.         *)
(***************************************************************************)
NotReturned == [returned |-> FALSE]

\* The locals of run() and discover_coupons() and the history, as a call of
\* run() starts.
FreshLocals ==
    /\ google_pages = <<>> /\ ddg_pages = <<>> /\ bing_pages = <<>>
    /\ aggregator_pages = <<>> /\ all_pages = <<>> /\ unique_pages = <<>>
    /\ page_i = 1 /\ all_coupon_urls = <<>> /\ unique = <<>>
    /\ urls = <<>> /\ url_i = 1 /\ returned = NotReturned
    /\ backend_calls = <<>> /\ page_fetches = <<>> /\ detail_fetches = <<>>
    /\ details_log = <<>> /\ extracted = {} /\ known_yielded = FALSE /\ failed = {}

HarnessIdle == fn = "none" /\ args = <<>> /\ result = NotCalled

\* GreatClipsScraper.__init__
Init ==
    /\ target_area = AreaDC
    /\ found_coupons = <<>>
    /\ pc = "idle" /\ runs = 0
    /\ FreshLocals
    /\ HarnessIdle

\* run() is called, for the first time or again: discover_coupons starts.
Run ==
    /\ pc \in {"idle", "returned"}
    /\ runs < MaxRuns
    /\ runs' = runs + 1
    /\ pc' = "google"
    /\ google_pages' = <<>> /\ ddg_pages' = <<>> /\ bing_pages' = <<>>
    /\ aggregator_pages' = <<>> /\ all_pages' = <<>> /\ unique_pages' = <<>>
    /\ page_i' = 1 /\ all_coupon_urls' = <<>> /\ unique' = <<>>
    /\ urls' = <<>> /\ url_i' = 1 /\ returned' = NotReturned
    /\ backend_calls' = <<>> /\ page_fetches' = <<>> /\ detail_fetches' = <<>>
    /\ details_log' = <<>> /\ extracted' = {} /\ known_yielded' = FALSE /\ failed' = {}
    /\ UNCHANGED <<scraperVars, harnessVars>>

\* google_pages = self._google_search(...); aggregator_pages.extend(...)
GoogleSearch ==
    /\ pc = "google"
    /\ \E provider \in GoogleProviders :
        \E r \in {_google_search(provider)} :
            /\ backend_calls' = Append(backend_calls, "google")
            /\ failed' = IF provider.exc # "none" THEN failed \cup {"google"} ELSE failed
            /\ IF r.raised = "none"
               THEN /\ google_pages' = r.value
                    /\ aggregator_pages' = aggregator_pages \o r.value
                    /\ pc' = "ddg"
               ELSE pc' = "error" /\ UNCHANGED <<google_pages, aggregator_pages>>
    /\ UNCHANGED <<scraperVars, harnessVars, runs, ddg_pages, bing_pages, all_pages,
                   unique_pages, page_i, all_coupon_urls, unique, urls, url_i, returned,
                   page_fetches, detail_fetches, details_log, extracted, known_yielded>>

\* ddg_pages = self._duckduckgo_search(...); aggregator_pages.extend(...)
DuckDuckGoSearch ==
    /\ pc = "ddg"
    /\ \E provider \in DdgProviders :
        \E r \in {_duckduckgo_search(provider)} :
            /\ backend_calls' = Append(backend_calls, "duckduckgo")
            /\ failed' = IF provider.exc # "none" THEN failed \cup {"duckduckgo"} ELSE failed
            /\ IF r.raised = "none"
               THEN /\ ddg_pages' = r.value
                    /\ aggregator_pages' = aggregator_pages \o r.value
                    /\ pc' = "bing"
               ELSE pc' = "error" /\ UNCHANGED <<ddg_pages, aggregator_pages>>
    /\ UNCHANGED <<scraperVars, harnessVars, runs, google_pages, bing_pages, all_pages,
                   unique_pages, page_i, all_coupon_urls, unique, urls, url_i, returned,
                   page_fetches, detail_fetches, details_log, extracted, known_yielded>>

\* bing_pages = self._bing_search(...); aggregator_pages.extend(...)
BingSearch ==
    /\ pc = "bing"
    /\ \E response \in BingResponses :
        \E r \in {_bing_search(response)} :
            /\ backend_calls' = Append(backend_calls, "bing")
            /\ failed' = IF FetchAndParse(response) # "none"
                         THEN failed \cup {"bing"} ELSE failed
            /\ IF r.raised = "none"
               THEN /\ bing_pages' = r.value
                    /\ aggregator_pages' = aggregator_pages \o r.value
                    /\ pc' = "merge"
               ELSE pc' = "error" /\ UNCHANGED <<bing_pages, aggregator_pages>>
    /\ UNCHANGED <<scraperVars, harnessVars, runs, google_pages, ddg_pages, all_pages,
                   unique_pages, page_i, all_coupon_urls, unique, urls, url_i, returned,
                   page_fetches, detail_fetches, details_log, extracted, known_yielded>>

\* Step 2 of discover_coupons: the known aggregators are added and the
\* page list is deduplicated.
BuildPageList ==
    /\ pc = "merge"
    /\ all_pages' = AddKnown(aggregator_pages, KNOWN_AGGREGATORS)
    /\ unique_pages' = Dedup(all_pages')
    /\ pc' = "merged"
    /\ UNCHANGED <<scraperVars, harnessVars, historyVars, runs, google_pages, ddg_pages,
                   bing_pages, aggregator_pages, page_i, all_coupon_urls, unique, urls,
                   url_i, returned>>

\* Step 3 starts: all_coupon_urls = [].  The lists of steps 1 and 2 are not
\* read again; only unique_pages is kept from here on.
BeginScrape ==
    /\ pc = "merged"
    /\ all_coupon_urls' = <<>>
    /\ page_i' = 1
    /\ google_pages' = <<>> /\ ddg_pages' = <<>> /\ bing_pages' = <<>>
    /\ aggregator_pages' = <<>> /\ all_pages' = <<>>
    /\ pc' = "scrape"
    /\ UNCHANGED <<scraperVars, harnessVars, historyVars, runs, unique_pages, unique, urls,
                   url_i, returned>>

\* A round of the loop that fetches a page a second time when its first
\* fetch has failed.
ScrapePageAgain ==
    /\ pc = "scrape"
    /\ page_i <= Len(unique_pages)
    /\ \E response \in PageResponses :
        \E page_url \in {unique_pages[page_i]}, r \in {_extract_coupon_links_from_page(response)} :
            /\ page_fetches' = Append(page_fetches, page_url)
            /\ failed' = IF FetchAndParse(response) # "none"
                         THEN failed \cup {"page"} ELSE failed
            /\ all_coupon_urls' = all_coupon_urls \o r.value
            /\ extracted' = extracted \cup Range(r.value)
            /\ known_yielded' = (known_yielded \/
                   (page_url \in Range(KNOWN_AGGREGATORS) /\ r.value # <<>>))
            /\ page_i' = IF FetchAndParse(response) # "none" /\ page_url \notin Range(page_fetches)
                         THEN page_i ELSE page_i + 1
            /\ pc' = "scrape"
    /\ UNCHANGED <<scraperVars, harnessVars, runs, google_pages, ddg_pages, bing_pages,
                   aggregator_pages, all_pages, unique_pages, unique, urls, url_i,
                   returned, backend_calls, detail_fetches, details_log>>

\* One round of the loop over unique_pages.
ScrapePage ==
    /\ pc = "scrape"
    /\ page_i <= Len(unique_pages)
    /\ \E response \in PageResponses :
        \E page_url \in {unique_pages[page_i]}, r \in {_extract_coupon_links_from_page(response)} :
            /\ page_fetches' = Append(page_fetches, page_url)
            /\ failed' = IF FetchAndParse(response) # "none"
                         THEN failed \cup {"page"} ELSE failed
            /\ IF r.raised = "none"
               THEN /\ all_coupon_urls' = all_coupon_urls \o r.value
                    /\ extracted' = extracted \cup Range(r.value)
                    /\ known_yielded' = (known_yielded \/
                           (page_url \in Range(KNOWN_AGGREGATORS) /\ r.value # <<>>))
                    /\ page_i' = page_i + 1
                    /\ pc' = "scrape"
               ELSE /\ pc' = "error"
                    /\ UNCHANGED <<all_coupon_urls, extracted, known_yielded, page_i>>
    /\ UNCHANGED <<scraperVars, harnessVars, runs, google_pages, ddg_pages, bing_pages,
                   aggregator_pages, all_pages, unique_pages, unique, urls, url_i,
                   returned, backend_calls, detail_fetches, details_log>>

\* The loop over unique_pages is over: the coupon URLs are deduplicated.
DedupCouponUrls ==
    /\ pc = "scrape"
    /\ page_i > Len(unique_pages)
    /\ unique' = Dedup(all_coupon_urls)
    /\ pc' = "discovered"
    /\ UNCHANGED <<scraperVars, harnessVars, historyVars, runs, google_pages, ddg_pages,
                   bing_pages, aggregator_pages, all_pages, unique_pages, page_i,
                   all_coupon_urls, urls, url_i, returned>>

\* discover_coupons returns unique to run(), and its locals are gone;
\* "if not urls: return self.found_coupons".
ReturnFromDiscover ==
    /\ pc = "discovered"
    /\ urls' = unique
    /\ url_i' = 1
    /\ unique_pages' = <<>> /\ all_coupon_urls' = <<>> /\ unique' = <<>> /\ page_i' = 1
    /\ IF unique = <<>>
       THEN returned' = found_coupons /\ pc' = "returned"
       ELSE returned' = returned /\ pc' = "details"
    /\ UNCHANGED <<scraperVars, harnessVars, historyVars, runs, google_pages, ddg_pages,
                   bing_pages, aggregator_pages, all_pages>>

\* A test that takes every record for a match.
IsRecord(details) == details # None

\* if details and details['is_target']
IsMatch(details) == details # None /\ details.is_target

\* One round of the loop over urls.
CheckCoupon ==
    /\ pc = "details"
    /\ url_i <= Len(urls)
    /\ \E response \in CouponResponses :
        \E url \in {urls[url_i]} :
        \E r \in {extract_coupon_details(target_area, url, response)} :
        \E details \in {r.value} :
            /\ detail_fetches' = Append(detail_fetches, url)
            /\ failed' = IF FetchAndParse(response) # "none"
                         THEN failed \cup {"detail"} ELSE failed
            /\ IF r.raised = "none"
               THEN /\ details_log' = Append(details_log, details)
                    /\ found_coupons' =
                           IF IsMatch(details)
                           THEN Append(found_coupons, details)
                           ELSE found_coupons
                    /\ url_i' = url_i + 1
                    /\ pc' = "details"
               ELSE /\ pc' = "error"
                    /\ UNCHANGED <<details_log, found_coupons, url_i>>
    /\ UNCHANGED <<target_area, harnessVars, runs, google_pages, ddg_pages, bing_pages,
                   aggregator_pages, all_pages, unique_pages, page_i, all_coupon_urls,
                   unique, urls, returned, backend_calls, page_fetches, extracted,
                   known_yielded>>

\* The loop over urls is over: "return self.found_coupons".
ReturnFromRun ==
    /\ pc = "details"
    /\ url_i > Len(urls)
    /\ returned' = found_coupons
    /\ pc' = "returned"
    /\ UNCHANGED <<scraperVars, harnessVars, historyVars, runs, google_pages, ddg_pages,
                   bing_pages, aggregator_pages, all_pages, unique_pages, page_i,
                   all_coupon_urls, unique, urls, url_i>>

Next ==
    \/ Run
    \/ GoogleSearch
    \/ DuckDuckGoSearch
    \/ BingSearch
    \/ BuildPageList
    \/ BeginScrape
    \/ ScrapePage
    \/ DedupCouponUrls
    \/ ReturnFromDiscover
    \/ CheckCoupon
    \/ ReturnFromRun

Spec == Init /\ [][Next]_vars

\* The pipeline stands still while the unit harness applies one function.
PipelineIdle == pc = "idle" /\ runs = 0 /\ FreshLocals


(***************************************************************************)
(* Unit harness of _is_valid_coupon_url: every string of UrlInputs.        *)
(***************************************************************************)
MaxPathLexemes == 2

UrlLead == {<<>>, <<" ">>}
UrlSchemes == {<<>>, <<":">>} \cup {<<w, ":">> : w \in {"http", "https", "HTTPS", "ftp"}}
UrlSlashes == {<<>>, <<"/">>, <<"/", "/">>}
UrlAuthorities ==
    {<<>>, <<CouponHost>>, <<"www.greatclips.com">>, <<CouponHost, ":", "443">>,
     <<"abc", "@", CouponHost>>, <<"[", CouponHost>>}
UrlPaths == SeqsUpTo({"/", "abc", ";"}, MaxPathLexemes)
UrlTails == {<<>>, <<"?", "abc">>, <<"#", "abc">>}

UrlInputs ==
    {l \o s \o sl \o a \o p \o t :
        l \in UrlLead, s \in UrlSchemes, sl \in UrlSlashes,
        a \in UrlAuthorities, p \in UrlPaths, t \in UrlTails}

InitUrl ==
    /\ fn = "_is_valid_coupon_url"
    /\ args \in {[url |-> u] : u \in UrlInputs}
    /\ result = NotCalled
    /\ target_area = AreaDC /\ found_coupons = <<>>
    /\ PipelineIdle

CallIsValidCouponUrl ==
    /\ fn = "_is_valid_coupon_url"
    /\ result = NotCalled
    /\ result' = Returned(_is_valid_coupon_url(args.url))
    /\ UNCHANGED <<fn, args, scraperVars, runVars, historyVars>>

NextUrl == CallIsValidCouponUrl

SpecUrl == InitUrl /\ [][NextUrl]_vars

(***************************************************************************)
(* Unit harness of _matches_area: every area and text over AreaAlphabet    *)
(* within the bounds, and the cases of TestAreaMatching.                   *)
(***************************************************************************)
MaxAreaLen == 2
MaxTextLen == 4

AreaAlphabet == {"d", "D", "c", ".", " "}

\* <<target area of the scraper, text>>: all of them within the bounds, and
\* "DC" against "EDUCATION program" and "Washington DC area", "Kansas City"
\* against "Offer for Kansas state" and "Offer for Kansas City, MO".
AreaInputs ==
    (SeqsUpTo(AreaAlphabet, MaxAreaLen) \ {<<>>}) \X SeqsUpTo(AreaAlphabet, MaxTextLen)
    \cup ({AreaDC} \X
            {<<"E", "D", "U", "C", "A", "T", "I", "O", "N", " ", "p", "r", "o", "g", "r", "a", "m">>,
             <<"W", "a", "s", "h", "i", "n", "g", "t", "o", "n", " ", "D", "C", " ", "a", "r", "e", "a">>})
    \cup ({<<"K", "a", "n", "s", "a", "s", " ", "C", "i", "t", "y">>} \X
            {<<"O", "f", "f", "e", "r", " ", "f", "o", "r", " ", "K", "a", "n", "s", "a", "s", " ",
               "s", "t", "a", "t", "e">>,
             <<"O", "f", "f", "e", "r", " ", "f", "o", "r", " ", "K", "a", "n", "s", "a", "s", " ",
               "C", "i", "t", "y", ",", " ", "M", "O">>})

InitArea ==
    /\ fn = "_matches_area"
    /\ \E in \in AreaInputs : target_area = in[1] /\ args = [text |-> in[2]]
    /\ result = NotCalled
    /\ found_coupons = <<>>
    /\ PipelineIdle

CallMatchesArea ==
    /\ fn = "_matches_area"
    /\ result = NotCalled
    /\ result' = Returned(_matches_area(target_area, args.text))
    /\ UNCHANGED <<fn, args, scraperVars, runVars, historyVars>>

NextArea == CallMatchesArea

SpecArea == InitArea /\ [][NextArea]_vars

(***************************************************************************)
(* Unit harness of _extract_coupon_links_from_page: every page of up to    *)
(* MaxAnchors elements, the page of the tests, and every failing fetch.    *)
(***************************************************************************)
MaxAnchors == 3

OtherLink == <<"https", ":", "/", "/", "www.example.com", "/", "abc">>

\* Anchors to two coupon pages and to another host, an anchor with an empty
\* href, an anchor without href, and an element with href that is no anchor.
LinkElements ==
    {Element("a", TRUE, h) : h \in {CouponA, CouponB, OtherLink, <<>>}}
    \cup {Element("a", FALSE, <<>>), Element("link", TRUE, CouponA)}

\* AGGREGATOR_HTML: abc, xyz, abc again, and a link to another host.
AggregatorHtml ==
    <<Element("h1", FALSE, <<>>), Element("a", TRUE, CouponA), Element("a", TRUE, CouponB),
      Element("a", TRUE, CouponA), Element("a", TRUE, OtherLink)>>

LinkDocs == SeqsUpTo(LinkElements, MaxAnchors) \cup {AggregatorHtml}

\* Failing fetches whose body, had it been read, holds coupon links.
FailedFetchesOf(doc) ==
    {Response(e, 200, "none", doc) : e \in RequestFailures}
    \cup {Response("none", st, "none", doc) : st \in {404, 500}}
    \cup {Response("none", 200, e, doc) : e \in {"TypeError", "Exception"}}

LinkResponses ==
    {Response("none", 200, "none", d) : d \in LinkDocs} \cup FailedFetchesOf(AggregatorHtml)

InitLinks ==
    /\ fn = "_extract_coupon_links_from_page"
    /\ args \in {[page_url |-> PageDeals, response |-> r] : r \in LinkResponses}
    /\ result = NotCalled
    /\ target_area = AreaDC /\ found_coupons = <<>>
    /\ PipelineIdle

CallExtractCouponLinks ==
    /\ fn = "_extract_coupon_links_from_page"
    /\ result = NotCalled
    /\ result' = Returned(_extract_coupon_links_from_page(args.response))
    /\ UNCHANGED <<fn, args, scraperVars, runVars, historyVars>>

NextLinks == CallExtractCouponLinks

SpecLinks == InitLinks /\ [][NextLinks]_vars

(***************************************************************************)
(* Unit harness of extract_coupon_details: pages without the offer-details *)
(* element made of up to MaxBlocks paragraphs, pages with it, and every    *)
(* failing fetch, on a scraper that may hold a match already.              *)
(***************************************************************************)
MaxBlocks == 3

\* Texts of paragraphs: the area, another word, an amount, "off", a blank.
Snippets ==
    {<<"D", "C">>, <<"x">>, <<" ", "$", "5", " ">>, <<"o", "f", "f">>, <<" ">>}

\* <p>s</p> for each s of a sequence of texts, directly below the body.
RECURSIVE Paragraphs(_)
Paragraphs(texts) ==
    IF texts = <<>> THEN <<>>
    ELSE <<Tag("p", 1, ""), Text(2, Head(texts))>> \o Paragraphs(Tail(texts))

\* Pages without an offer-details element: paragraphs, a div of another id,
\* a document without body.
PlainPages ==
    {Page(TRUE, Paragraphs(t)) : t \in SeqsUpTo(Snippets, MaxBlocks)}
    \cup {Page(TRUE, <<Tag("div", 1, "other"), Tag("h4", 2, ""), Text(3, StrHeadDescription),
                       Tag("p", 2, ""), Text(3, StrFiveOffDC)>>),
          Page(FALSE, <<>>)}

MaxSections == 3

\* What the offer-details element may hold, each below it at depth 2: the
\* headings "Description", "Terms" and "x", a paragraph naming the area, a
\* paragraph "$5 offer", a paragraph inside a div, and a text of its own.
SectionBlocks ==
    { <<Tag("h4", 2, ""), Text(3, StrHeadDescription)>>,
      <<Tag("h4", 2, ""), Text(3, <<"T", "e", "r", "m", "s">>)>>,
      <<Tag("h4", 2, ""), Text(3, <<"x">>)>>,
      <<Tag("p", 2, ""), Text(3, <<"D", "C">>)>>,
      <<Tag("p", 2, ""), Text(3, <<"$", "5", " ", "o", "f", "f", "e", "r">>)>>,
      <<Tag("div", 2, ""), Tag("p", 3, ""), Text(4, <<"x">>)>>,
      <<Text(2, <<"D", "C">>)>> }

\* The nodes of a sequence of blocks, one block after the other.
RECURSIVE Flatten(_)
Flatten(blocks) == IF blocks = <<>> THEN <<>> ELSE Head(blocks) \o Flatten(Tail(blocks))

\* Pages whose body is an offer-details element of up to MaxSections blocks.
SectionPages ==
    {Page(TRUE, <<Tag("div", 1, "offer-details")>> \o Flatten(b)) :
        b \in SeqsUpTo(SectionBlocks, MaxSections)}

DetailPages == PlainPages \cup {MatchPage, NoMatchPage} \cup SectionPages

DetailResponses ==
    {Response("none", 200, "none", d) : d \in DetailPages} \cup FailedFetchesOf(MatchPage)

\* A match an earlier call of run() has left in found_coupons.
EarlierMatch == CouponRecord(AreaDC, CouponB, StrFiveOffDC)

InitDetail ==
    /\ fn = "extract_coupon_details"
    /\ args \in {[url |-> CouponA, response |-> r] : r \in DetailResponses}
    /\ result = NotCalled
    /\ target_area \in {AreaDC, <<"x">>}
    /\ found_coupons \in {<<>>, <<EarlierMatch>>}
    /\ PipelineIdle

CallExtractCouponDetails ==
    /\ fn = "extract_coupon_details"
    /\ result = NotCalled
    /\ result' = Returned(extract_coupon_details(target_area, args.url, args.response))
    /\ UNCHANGED <<fn, args, scraperVars, runVars, historyVars>>

NextDetail == CallExtractCouponDetails

SpecDetail == InitDetail /\ [][NextDetail]_vars

(***************************************************************************)
(* Unit harness of the three search backends: every provider and every     *)
(* results page of the pipeline, each backend called once.                 *)
(***************************************************************************)
InitBackend ==
    /\ \/ fn = "_google_search" /\ args \in {[provider |-> q] : q \in GoogleProviders}
       \/ fn = "_duckduckgo_search" /\ args \in {[provider |-> q] : q \in DdgProviders}
       \/ fn = "_bing_search" /\ args \in {[response |-> r] : r \in BingResponses}
    /\ result = NotCalled
    /\ target_area = AreaDC /\ found_coupons = <<>>
    /\ PipelineIdle

CallGoogleSearch ==
    /\ fn = "_google_search"
    /\ result = NotCalled
    /\ result' = Returned(_google_search(args.provider))
    /\ UNCHANGED <<fn, args, scraperVars, runVars, historyVars>>

CallDuckDuckGoSearch ==
    /\ fn = "_duckduckgo_search"
    /\ result = NotCalled
    /\ result' = Returned(_duckduckgo_search(args.provider))
    /\ UNCHANGED <<fn, args, scraperVars, runVars, historyVars>>

CallBingSearch ==
    /\ fn = "_bing_search"
    /\ result = NotCalled
    /\ result' = Returned(_bing_search(args.response))
    /\ UNCHANGED <<fn, args, scraperVars, runVars, historyVars>>

NextBackend ==
    \/ CallGoogleSearch
    \/ CallDuckDuckGoSearch
    \/ CallBingSearch

SpecBackend == InitBackend /\ [][NextBackend]_vars

(***************************************************************************)
(* C1.  Whatever the three backends return and whatever links the pages    *)
(* hold, the sequence discover_coupons returns has no value twice, holds   *)
(* exactly the coupon URLs extracted from the scraped pages, and orders    *)
(* them by first occurrence, the pages being scraped in the order Google,  *)
(* DuckDuckGo, Bing, known aggregators.                                    *)
(***************************************************************************)
NoDuplicates(u) == \A i, j \in 1..Len(u) : u[i] = u[j] => i = j

\* u holds the values of items, each once, in the order of their first
\* occurrence in items.
IsFirstOccurrenceOrder(u, items) ==
    /\ NoDuplicates(u)
    /\ Range(u) = Range(items)
    /\ \A i, j \in 1..Len(u) : i < j => Find(items, u[i]) < Find(items, u[j])

C1_DiscoverFirstOccurrenceOrder ==
    /\ pc = "merged" =>
           IsFirstOccurrenceOrder(unique_pages,
               google_pages \o ddg_pages \o bing_pages \o KNOWN_AGGREGATORS)
    /\ pc = "discovered" =>
           /\ page_fetches = unique_pages
           /\ Range(unique) = extracted
           /\ IsFirstOccurrenceOrder(unique, all_coupon_urls)

\* discover_coupons is about to return two coupon URLs, the first of them
\* seen again after the second, from pages that a search added.
C1_Witness ==
    /\ pc = "discovered"
    /\ Len(unique_pages) > Len(KNOWN_AGGREGATORS)
    /\ unique = <<CouponB, CouponA>>
    /\ Len(all_coupon_urls) > 3

(***************************************************************************)
(* C2.  Whatever the three backends do, all three failing included, the    *)
(* pages discover_coupons scrapes hold every entry of KNOWN_AGGREGATORS    *)
(* exactly once, and the list it returns is not empty when a known         *)
(* aggregator page has yielded a valid coupon link.                        *)
(***************************************************************************)
Count(items, x) == Cardinality({i \in 1..Len(items) : items[i] = x})

C2_KnownAggregatorsScrapedOnce ==
    /\ pc \in {"merged", "scrape", "discovered"} =>
           \A k \in Range(KNOWN_AGGREGATORS) : Count(unique_pages, k) = 1
    /\ pc = "discovered" =>
           /\ \A k \in Range(KNOWN_AGGREGATORS) : Count(page_fetches, k) = 1
           /\ known_yielded => unique # <<>>

\* All three backends have failed and a known aggregator has yielded a link.
C2_Witness ==
    /\ pc = "discovered"
    /\ {"google", "duckduckgo", "bing"} \subseteq failed
    /\ page_fetches = KNOWN_AGGREGATORS
    /\ known_yielded

(***************************************************************************)
(* C3.  Under every combination of failures of the backend calls, the page *)
(* fetches and the coupon-page fetches, run() never ends in an error: the  *)
(* three backends are all queried, every page of the deduplicated list is  *)
(* scraped, every discovered URL goes to the detail extractor, and run()   *)
(* returns a match list.                                                   *)
(***************************************************************************)
C3_RunNeverRaises ==
    /\ pc # "error"
    /\ pc \in {"merge", "merged", "scrape", "discovered", "details", "returned"} =>
           backend_calls = <<"google", "duckduckgo", "bing">>
    /\ pc = "discovered" => page_fetches = unique_pages
    /\ pc = "returned" =>
           /\ detail_fetches = urls
           /\ returned = found_coupons

\* run() has returned after a failure at every boundary, with more than one
\* coupon URL checked.
C3_Witness ==
    /\ pc = "returned"
    /\ failed = {"google", "duckduckgo", "bing", "page", "detail"}
    /\ Len(detail_fetches) > 1

(***************************************************************************)
(* C4.  After one run() on a new scraper the match list returned is the    *)
(* subsequence, in discovery order, of the records of the discovered URLs  *)
(* for which the detail extractor returned a record with is_target true,   *)
(* each matching URL once.                                                 *)
(***************************************************************************)
IsTargetRecord(d) == d # None /\ d.is_target

C4_FirstRunReturnsTargets ==
    (pc = "returned" /\ runs = 1) =>
        /\ Len(details_log) = Len(urls)
        /\ \A i \in 1..Len(urls) : details_log[i] # None => details_log[i].url = urls[i]
        /\ returned = SelectSeq(details_log, IsTargetRecord)
        /\ NoDuplicates([i \in 1..Len(returned) |-> returned[i].url])

\* The first run() has returned one match out of two URLs, the other one
\* being a page for another area.
C4_Witness ==
    /\ pc = "returned" /\ runs = 1
    /\ Len(urls) = 2
    /\ Len(returned) = 1
    /\ \E i \in 1..2 : details_log[i] # None /\ ~details_log[i].is_target

(***************************************************************************)
(* C5.  On every call of run(), on a new scraper or on one that has        *)
(* completed run() before, when discover_coupons returns no URL, run()     *)
(* returns an empty match list at once and does not call the detail        *)
(* extractor.                                                              *)
(***************************************************************************)
C5_EmptyDiscoveryReturnsEmpty ==
    (pc = "returned" /\ urls = <<>>) =>
        (returned = <<>> /\ detail_fetches = <<>>)

\* The same statement for the first call on a new scraper.
C5_FirstRunEmptyDiscovery ==
    (pc = "returned" /\ urls = <<>> /\ runs = 1) =>
        (returned = <<>> /\ detail_fetches = <<>>)

(***************************************************************************)
(* C6.  extract_coupon_details returns None, neither a record nor an       *)
(* exception, whenever the fetch of the coupon page ends in a connection   *)
(* failure, a timeout or an HTTP error status, and the call leaves         *)
(* found_coupons as it was.                                                *)
(***************************************************************************)
\* session.get raises ConnectionError or Timeout, or the status is an error.
FetchFails(response) ==
    \/ response.get_exc \in {"ConnectionError", "Timeout"}
    \/ response.get_exc = "none" /\ response.status >= 400

C6_FailedFetchReturnsNone ==
    [][(/\ fn = "extract_coupon_details"
        /\ ~result.called /\ result'.called
        /\ FetchFails(args.response)) =>
           (result'.value = Ok(None) /\ found_coupons' = found_coupons)]_vars

\* The call has returned after a timeout, on a scraper that held a match.
C6_Witness ==
    /\ fn = "extract_coupon_details" /\ result.called
    /\ args.response.get_exc = "Timeout"
    /\ result.value = Ok(None)
    /\ found_coupons = <<EarlierMatch>>

(***************************************************************************)
(* C7.  For every target area A, areas that begin or end with a non-word   *)
(* character included, and every text S, _matches_area(S) is true iff S    *)
(* contains A, compared case-insensitively, at a position where the        *)
(* occurrence has on each side a non-word character or the edge of S.      *)
(***************************************************************************)
OccursAsWholePhrase(a, s) ==
    \E i \in 1..(Len(s) + 1) :
        /\ i + Len(a) - 1 <= Len(s)
        /\ LowerStr(SubSeq(s, i, i + Len(a) - 1)) = LowerStr(a)
        /\ (i = 1 \/ ~IsWordChar(s[i - 1]))
        /\ (i + Len(a) > Len(s) \/ ~IsWordChar(s[i + Len(a)]))

C7_MatchesIffWholePhrase ==
    (fn = "_matches_area" /\ result.called) =>
        (result.value = OccursAsWholePhrase(target_area, args.text))

\* The same statement for areas that begin and end with a word character.
C7_WordEdgedAreas ==
    (/\ fn = "_matches_area" /\ result.called
     /\ IsWordChar(Head(target_area))
     /\ IsWordChar(target_area[Len(target_area)])) =>
        (result.value = OccursAsWholePhrase(target_area, args.text))

(***************************************************************************)
(* C8.  _is_valid_coupon_url returns true iff the string parses as a URL   *)
(* whose scheme is http or https, whose host is exactly                    *)
(* offers.greatclips.com and whose path is longer than one character; it   *)
(* returns false for every other string and never raises.                  *)
(***************************************************************************)
\* The host of an authority: what follows the userinfo ("user@") and precedes
\* the port (":443").
HostOf(netloc) ==
    LET at == RFind(netloc, "@")
        hostport == Drop(netloc, at)
        colon == Find(hostport, ":")
    IN  IF colon = 0 THEN hostport ELSE Take(hostport, colon - 1)

IsCouponUrl(url) ==
    LET parsed == urlparse(url)
    IN  /\ parsed # ValueError
        /\ parsed.scheme \in {<<"http">>, <<"https">>}
        /\ HostOf(parsed.netloc) = <<CouponHost>>
        /\ StrLen(parsed.path) > 1

C8_ValidIffCouponUrl ==
    (fn = "_is_valid_coupon_url" /\ result.called) =>
        (result.value = IsCouponUrl(args.url))

(***************************************************************************)
(* C9.  For a page fetched successfully _extract_coupon_links_from_page    *)
(* returns the hrefs of the anchors that pass _is_valid_coupon_url, in     *)
(* document order and with repeats kept (the page with abc, xyz, abc and   *)
(* a link to another host gives 3 entries, 2 of them distinct); when the   *)
(* fetch fails or the document does not parse it returns the empty list    *)
(* and raises nothing.                                                     *)
(***************************************************************************)
FetchSucceeds(response) ==
    response.get_exc = "none" /\ response.status < 400 /\ response.parse_exc = "none"

\* The positions of the anchors of doc whose href is a valid coupon URL.
ValidAnchorIndexes(doc) ==
    {i \in 1..Len(doc) :
        doc[i].name = "a" /\ doc[i].has_href /\ _is_valid_coupon_url(doc[i].href)}

\* The k-th smallest element of a set of numbers.
KthOf(S, k) == CHOOSE i \in S : Cardinality({j \in S : j <= i}) = k

C9_LinksInDocumentOrder ==
    (fn = "_extract_coupon_links_from_page" /\ result.called) =>
        /\ result.value.raised = "none"
        /\ IF FetchSucceeds(args.response)
           THEN /\ Len(result.value.value) =
                       Cardinality(ValidAnchorIndexes(args.response.doc))
                /\ \A k \in 1..Len(result.value.value) :
                       result.value.value[k] =
                           args.response.doc[KthOf(ValidAnchorIndexes(args.response.doc), k)].href
           ELSE result.value.value = <<>>
        /\ args.response = Response("none", 200, "none", AggregatorHtml) =>
               /\ Len(result.value.value) = 3
               /\ Cardinality(Range(result.value.value)) = 2

\* The page of the tests has been read: abc, xyz and abc again.
C9_Witness ==
    /\ fn = "_extract_coupon_links_from_page" /\ result.called
    /\ args.response = Response("none", 200, "none", AggregatorHtml)
    /\ result.value = Ok(<<CouponA, CouponB, CouponA>>)

(***************************************************************************)
(* C10.  When the coupon page fetched has no offer-details element,        *)
(* extract_coupon_details does no section splitting: the description is    *)
(* the whole text of the body and the terms are empty, the record is       *)
(* returned all the same with is_target the result of _matches_area on     *)
(* that text, and offer_value is "Unknown" when the text holds no money    *)
(* amount.                                                                 *)
(***************************************************************************)
HasOfferDetails(page) ==
    \E i \in 1..Len(page.nodes) :
        page.nodes[i].name = "div" /\ page.nodes[i].id = "offer-details"

WholeBodyText(page) == IF page.body THEN Strip(body_get_text(page.nodes)) ELSE <<>>

\* "$" and a digit after it: where the money pattern can match.
HasMoney(text) == \E i \in 1..(Len(text) - 1) : text[i] = "$" /\ text[i + 1] \in Digits

C10_FallbackToBodyText ==
    (/\ fn = "extract_coupon_details" /\ result.called
     /\ FetchSucceeds(args.response)
     /\ ~HasOfferDetails(args.response.doc)) =>
        /\ result.value.raised = "none"
        /\ result.value.value # None
        /\ result.value.value.url = args.url
        /\ result.value.value.area_text = WholeBodyText(args.response.doc) \o <<" ">>
        /\ result.value.value.is_target =
               _matches_area(target_area, WholeBodyText(args.response.doc))
        /\ ~HasMoney(WholeBodyText(args.response.doc)) =>
               result.value.value.offer_value = StrUnknown

\* A page of three paragraphs and no offer-details element has been read:
\* it names the target area and no amount.
C10_Witness ==
    /\ fn = "extract_coupon_details" /\ result.called
    /\ FetchSucceeds(args.response)
    /\ ~HasOfferDetails(args.response.doc)
    /\ Len(args.response.doc.nodes) = 6
    /\ result.value.value.is_target
    /\ result.value.value.offer_value = StrUnknown

(***************************************************************************)
(* C11.  In every record extract_coupon_details returns, offer_value is    *)
(* the first dollar amount of area_text, with its two-digit cents when it  *)
(* has them, and with the word "off" (in any case) when that word follows; *)
(* it is "Unknown" iff area_text holds no dollar amount.  An amount before *)
(* a longer word that starts with "off" ("$5 offer") is the amount alone.  *)
(***************************************************************************)
\* The end of the amount that starts with the "$" at index i: its digits and,
\* when "." and two digits follow, the cents.
AmountEnd(text, i) ==
    LET d == RunEnd(text, i + 1, Digits)
    IN  IF /\ d + 3 <= Len(text) /\ text[d + 1] = "."
           /\ text[d + 2] \in Digits /\ text[d + 3] \in Digits
        THEN d + 3 ELSE d

\* The word "off" stands at w+1..w+3: no word character comes after it.
WordOffAfter(text, w) ==
    /\ w + 3 <= Len(text)
    /\ LowerStr(SubSeq(text, w + 1, w + 3)) = <<"o", "f", "f">>
    /\ ~WordAt(text, w + 4)

\* The offer value the statement describes, for the amount that starts at i.
AmountWithOff(text, i) ==
    LET c == AmountEnd(text, i)
        w == RunEnd(text, c + 1, WhiteSpace)
    IN  SubSeq(text, i, IF WordOffAfter(text, w) THEN w + 3 ELSE c)

FirstAmountWithOff(text) ==
    IF HasMoney(text)
    THEN AmountWithOff(text, CHOOSE i \in 1..Len(text) :
                                 /\ MoneyAt(text, i)
                                 /\ \A j \in 1..(i - 1) : ~MoneyAt(text, j))
    ELSE StrUnknown

IsRecordReturned ==
    /\ fn = "extract_coupon_details" /\ result.called
    /\ result.value.raised = "none"
    /\ result.value.value # None

C11_OfferValueIsFirstAmount ==
    IsRecordReturned =>
        result.value.value.offer_value = FirstAmountWithOff(result.value.value.area_text)

\* The same statement without its last sentence: "off" is taken wherever
\* its three letters follow the amount, at the start of a longer word too.
LettersOffAfter(text, w) ==
    w + 3 <= Len(text) /\ LowerStr(SubSeq(text, w + 1, w + 3)) = <<"o", "f", "f">>

AmountWithLetters(text, i, w) ==
    SubSeq(text, i, IF LettersOffAfter(text, w) THEN w + 3 ELSE AmountEnd(text, i))

C11_OfferValueOfPattern ==
    IsRecordReturned =>
        IF HasMoney(result.value.value.area_text)
        THEN \E i \in 1..Len(result.value.value.area_text) :
                 /\ MoneyAt(result.value.value.area_text, i)
                 /\ \A j \in 1..(i - 1) : ~MoneyAt(result.value.value.area_text, j)
                 /\ result.value.value.offer_value =
                        AmountWithLetters(result.value.value.area_text, i,
                            RunEnd(result.value.value.area_text,
                                   AmountEnd(result.value.value.area_text, i) + 1, WhiteSpace))
        ELSE result.value.value.offer_value = StrUnknown

(***************************************************************************)
(* C12.  Over the content of the offer-details element in document order,  *)
(* the section starts at none and changes at headings only ("description"  *)
(* in the heading: description; else "term": terms; else none); every text *)
(* node outside a heading is appended once to the text of the section      *)
(* active where it stands, whatever element holds it and however deep, and *)
(* text met while the section is none goes to neither text.                *)
(***************************************************************************)
\* Node i lies inside an h4 element.
InHeading(nodes, i) ==
    \E j \in 1..(i - 1) : nodes[j].name = "h4" /\ i <= SubtreeEnd(nodes, j)

\* One node of the walk the statement describes.
TextStep(st, nodes, i) ==
    IF nodes[i].name = "h4"
    THEN [st EXCEPT !.current_section = SectionOf(LowerStr(get_text(nodes, i)))]
    ELSE IF /\ nodes[i].name = "#text" /\ ~InHeading(nodes, i)
            /\ Strip(nodes[i].text) # <<>>
         THEN IF st.current_section = "description"
              THEN [st EXCEPT !.description_text = @ \o <<" ">> \o Strip(nodes[i].text)]
              ELSE IF st.current_section = "terms"
                   THEN [st EXCEPT !.terms_text = @ \o <<" ">> \o Strip(nodes[i].text)]
                   ELSE st
         ELSE st

RECURSIVE TextWalk(_, _, _, _)
TextWalk(nodes, i, last, st) ==
    IF i > last THEN st ELSE TextWalk(nodes, i + 1, last, TextStep(st, nodes, i))

\* The two texts of the statement for a page with an offer-details element.
TextsBySection(page) ==
    StripSections(TextWalk(page.nodes, find_offer_details(page.nodes) + 1,
                      SubtreeEnd(page.nodes, find_offer_details(page.nodes)),
                      [current_section |-> "None", description_text |-> <<>>,
                       terms_text |-> <<>>]))

C12_EveryTextNodeOnce ==
    (IsRecordReturned /\ HasOfferDetails(args.response.doc)) =>
        result.value.value.area_text = AllText(TextsBySection(args.response.doc))

\* Every text of the page is the one child of a heading or of a paragraph
\* that stands directly in the offer-details element.
IsFlat(page) ==
    \A i \in 1..Len(page.nodes) :
        page.nodes[i].name = "#text" =>
            /\ i > 1 /\ page.nodes[i].depth = 3
            /\ page.nodes[i - 1].depth = 2
            /\ page.nodes[i - 1].name \in {"h4", "p"}

\* The same statement for the pages without nesting and without text
\* outside paragraphs.
C12_FlatSections ==
    (IsRecordReturned /\ HasOfferDetails(args.response.doc) /\ IsFlat(args.response.doc)) =>
        result.value.value.area_text = AllText(TextsBySection(args.response.doc))

(***************************************************************************)
(* C13.  Whenever an exception is raised during the call of a search       *)
(* backend, at any point, after the provider has delivered results or      *)
(* after links have been collected included, the backend (_google_search,  *)
(* _duckduckgo_search, _bing_search) returns the empty list and raises     *)
(* nothing.                                                                *)
(***************************************************************************)
\* One of the URLs is one on which urlparse raises.
SomeUnparsable(hrefs) == \E i \in 1..Len(hrefs) : urlparse(hrefs[i]) = ValueError

\* An exception is raised during the call: by the provider or by the fetch,
\* or by urlparse on one of the URLs looked at.
ExceptionInBackend ==
    \/ /\ fn = "_google_search"
       /\ args.provider.exc # "none" \/ SomeUnparsable(args.provider.delivered)
    \/ /\ fn = "_duckduckgo_search"
       /\ args.provider.exc # "none" \/ SomeUnparsable(Hrefs(args.provider.delivered))
    \/ /\ fn = "_bing_search"
       /\ \/ ~FetchSucceeds(args.response)
          \/ SomeUnparsable(HrefsOf(find_all_a_href(args.response.doc)))

C13_FailedBackendReturnsEmpty ==
    (result.called /\ ExceptionInBackend) => result.value = Ok(<<>>)

\* The same statement for an exception raised before any URL is looked at:
\* by DDGS().text or by the fetch of the Bing results page; and, for every
\* exception, the part of the statement that nothing is raised.
C13_NothingRaised ==
    (result.called /\ ExceptionInBackend) =>
        /\ result.value.raised = "none"
        /\ (\/ fn = "_duckduckgo_search" /\ args.provider.exc # "none"
            \/ fn = "_bing_search" /\ ~FetchSucceeds(args.response)) =>
               result.value.value = <<>>

(***************************************************************************)
(* C14.  Within one run() no request is made again: each search backend is *)
(* called exactly once, each page of the deduplicated page list is fetched *)
(* exactly once by the link extractor and each discovered coupon URL       *)
(* exactly once by the detail extractor, whether its fetch succeeds or     *)
(* fails.                                                                  *)
(***************************************************************************)
C14_NoRetries ==
    /\ NoDuplicates(backend_calls)
    /\ NoDuplicates(page_fetches)
    /\ NoDuplicates(detail_fetches)
    /\ pc \in {"merge", "merged", "scrape", "discovered", "details", "returned"} =>
           \A b \in {"google", "duckduckgo", "bing"} : Count(backend_calls, b) = 1
    /\ pc = "scrape" => page_fetches = SubSeq(unique_pages, 1, page_i - 1)
    /\ pc = "discovered" =>
           /\ Len(page_fetches) = Len(unique_pages)
           /\ \A q \in Range(unique_pages) : Count(page_fetches, q) = 1
    /\ pc = "details" => detail_fetches = SubSeq(urls, 1, url_i - 1)
    /\ pc = "returned" =>
           /\ Len(detail_fetches) = Len(urls)
           /\ \A u \in Range(urls) : Count(detail_fetches, u) = 1

\* run() has returned after a backend, a page fetch and a coupon-page fetch
\* have failed, with two coupon URLs fetched.
C14_Witness ==
    /\ pc = "returned"
    /\ {"bing", "page", "detail"} \subseteq failed
    /\ Len(page_fetches) >= Len(KNOWN_AGGREGATORS)
    /\ Len(detail_fetches) = 2

====
